---- MODULE Spec2Model ----
(***************************************************************************)
(* Model of the incident-analysis backend (app/main.py, app/models.py,     *)
(* app/db.py): the /analyze handler, the /tasks listing, the per-incident  *)
(* chat handler and the chat listing, over the two tables tasks and        *)
(* chat_messages.  The LLM (client.chat.completions.create) and the JSON   *)
(* decoder are external: the LLM is a nondeterministic source of replies,  *)
(* the decoder is modelled on replies that are already tokenised into a    *)
(* JSON value or marked as undecodable text.                               *)
(***************************************************************************)
EXTENDS Integers, Sequences, FiniteSets, TLC

VARIABLES
    tasks,          \* table tasks: sequence of Task rows in insertion order
    chat_messages,  \* table chat_messages: sequence of ChatMessage rows
    now,            \* the last value datetime.utcnow() returned
    calls,          \* the chat calls waiting for the LLM's answer, oldest first
    request,        \* the last HTTP request a handler received
    response,       \* the last HTTP response sent
    llm_request,    \* the messages of the last call made to the LLM
    llm_reply,      \* the last reply the LLM returned
    llm_called,     \* whether the handler of the last request called the LLM
    completed       \* history: the chat calls that ended, in order of ending

vars == <<tasks, chat_messages, now, calls, request, response,
          llm_request, llm_reply, llm_called, completed>>

(***************************************************************************)
(* Bounds of the exploration.                                              *)
(***************************************************************************)
MaxTasks == 1
MaxTags == 2
MaxHistory == 7
MaxMsgs == 4
NumSeedTasks == 2
NumWorkers == 2

(***************************************************************************)
(* app/models.py: the closed enumerations.                                 *)
(***************************************************************************)
Sentiment == <<"positive", "negative", "neutral">>
Urgency == <<"low", "medium", "high">>

\* [s.value for s in Sentiment]
EnumValues(enum) == {enum[i] : i \in DOMAIN enum}

(***************************************************************************)
(* Python str operations used on tags.  A tag is a sequence of characters. *)
(***************************************************************************)
COMMA == ","

RECURSIVE str_join(_, _)
\* sep.join(items), items a sequence of strings
str_join(sep, items) ==
    IF Len(items) = 0 THEN <<>>
    ELSE IF Len(items) = 1 THEN items[1]
    ELSE items[1] \o <<sep>> \o str_join(sep, Tail(items))

\* index of the first sep in s, 0 if there is none
str_find(s, sep) ==
    IF \E i \in 1..Len(s) : s[i] = sep
    THEN CHOOSE i \in 1..Len(s) : s[i] = sep /\ \A j \in 1..(i - 1) : s[j] # sep
    ELSE 0

RECURSIVE str_split(_, _)
\* s.split(sep): always at least one piece, "" splits to [""]
str_split(s, sep) ==
    LET i == str_find(s, sep) IN
    IF i = 0 THEN <<s>>
    ELSE <<SubSeq(s, 1, i - 1)>> \o str_split(SubSeq(s, i + 1, Len(s)), sep)

(***************************************************************************)
(* Python values decoded from the LLM's JSON.  A scalar field of the       *)
(* decoded object is [t, s]: its JSON type (or "absent" when the key is    *)
(* missing) and, for a string, its text.  The tags field is [t, items]:    *)
(* for an array its elements, for a string its characters (what iterating  *)
(* a str yields).                                                          *)
(***************************************************************************)
JAbsent == [t |-> "absent", s |-> ""]
JNull == [t |-> "null", s |-> ""]
JNumber == [t |-> "number", s |-> ""]
JArray == [t |-> "array", s |-> ""]
JString(s) == [t |-> "string", s |-> s]

TagsAbsent == [t |-> "absent", items |-> <<>>]
TagsNull == [t |-> "null", items |-> <<>>]
StrItem(cs) == [t |-> "string", s |-> cs]
NumItem == [t |-> "number", s |-> <<>>]
TagsList(l) == [t |-> "array", items |-> [i \in DOMAIN l |-> StrItem(l[i])]]
TagsString(cs) == [t |-> "string", items |-> [i \in DOMAIN cs |-> StrItem(<<cs[i]>>)]]

\* the text of a reply: undecodable, or the JSON value it encodes
NotJSON == [valid |-> FALSE, t |-> "text",
            obj |-> [sentiment |-> JAbsent, urgency |-> JAbsent,
                     suggested_response |-> JAbsent, tags |-> TagsAbsent]]
JSONValue(t) == [valid |-> TRUE, t |-> t,
                 obj |-> [sentiment |-> JAbsent, urgency |-> JAbsent,
                          suggested_response |-> JAbsent, tags |-> TagsAbsent]]
JSONObject(sent, urg, sug, tgs) ==
    [valid |-> TRUE, t |-> "object",
     obj |-> [sentiment |-> sent, urgency |-> urg,
              suggested_response |-> sug, tags |-> tgs]]

\* json.loads(output_json_string)
json_loads(text) ==
    IF text.valid THEN [raised |-> "none", t |-> text.t, obj |-> text.obj]
    ELSE [raised |-> "JSONDecodeError", t |-> "text", obj |-> text.obj]

\* analysis_result.get(key, default)
dict_get(obj, key, default) ==
    IF obj[key].t = "absent" THEN default ELSE obj[key]

\* parsed in [s.value for s in enum]
in_values(parsed, enum) ==
    parsed.t = "string" /\ parsed.s \in EnumValues(enum)

\* a coercion that checks the type of the value but not its membership
coerce_enum_unchecked(parsed, enum, default) ==
    IF parsed.t = "string" THEN parsed.s ELSE default

\* Sentiment(parsed) if parsed in [...] else Sentiment.neutral (resp. Urgency, low)
coerce_enum(parsed, enum, default) ==
    IF in_values(parsed, enum) THEN parsed.s ELSE default

\* ",".join(x) raises TypeError unless x is iterable and yields only str
joinable(x) ==
    /\ x.t \in {"array", "string"}
    /\ \A i \in DOMAIN x.items : x.items[i].t = "string"

tags_join(x) == str_join(COMMA, [i \in DOMAIN x.items |-> x.items[i].s])

\* the column constraints of Task checked by db.commit(): suggested_response is
\* NOT NULL and must be a value the driver can bind
committable(suggested) == suggested.t = "string"

\* app/db.py Task row as stored
Task(id, solicitud, created_at, suggested, sentiment, urgency, tags) ==
    [id |-> id, solicitud |-> solicitud, created_at |-> created_at,
     suggested_response |-> suggested, sentiment |-> sentiment,
     urgency |-> urgency, tags |-> tags]

\* app/models.py AnalyzeOut
AnalyzeOut(suggested, sentiment, urgency, tags) ==
    [suggested_response |-> suggested, sentiment |-> sentiment,
     urgency |-> urgency, tags |-> tags]

DefaultSuggested == JString("No se pudo generar una respuesta sugerida.")
DefaultTags == TagsList(<< <<"general">> >>)
\* a fallback payload that reuses the default tags
ErrorResponseDefaultTags ==
    AnalyzeOut(JString("Error al procesar la respuesta del modelo."),
               "neutral", "low", << <<"general">> >>)
ErrorResponse ==
    AnalyzeOut(JString("Error al procesar la respuesta del modelo."),
               "neutral", "low", << <<"error_parsing">> >>)

NoTask == Task(0, "", 0, JAbsent, "", "", <<>>)
NoBody == AnalyzeOut(JAbsent, "", "", <<>>)

(***************************************************************************)
(* The body of analyze after the LLM has replied with `text` (main.py      *)
(* 75-118): what is persisted and what is answered.  An exception other    *)
(* than JSONDecodeError/ValueError leaves the handler and becomes a 500.   *)
(***************************************************************************)
analyze_body(solicitud, text, id, created_at) ==
    LET loaded == json_loads(text) IN
    IF loaded.raised # "none"
    THEN [status |-> 200, raised |-> loaded.raised, persisted |-> FALSE,
          task |-> NoTask, body |-> ErrorResponse]
    ELSE IF loaded.t # "object"
    THEN [status |-> 500, raised |-> "AttributeError", persisted |-> FALSE,
          task |-> NoTask, body |-> NoBody]
    ELSE
    LET analysis_result == loaded.obj
        parsed_sentiment_str == dict_get(analysis_result, "sentiment", JString("neutral"))
        parsed_urgency_str == dict_get(analysis_result, "urgency", JString("low"))
        sentiment_enum == coerce_enum(parsed_sentiment_str, Sentiment, "neutral")
        urgency_enum == coerce_enum(parsed_urgency_str, Urgency, "low")
        suggested == dict_get(analysis_result, "suggested_response", DefaultSuggested)
        tags_arg == dict_get(analysis_result, "tags", DefaultTags)
    IN
    IF ~joinable(tags_arg)
    THEN [status |-> 500, raised |-> "TypeError", persisted |-> FALSE,
          task |-> NoTask, body |-> NoBody]
    ELSE IF ~committable(suggested)
    THEN [status |-> 500, raised |-> "IntegrityError", persisted |-> FALSE,
          task |-> NoTask, body |-> NoBody]
    ELSE
    LET task == Task(id, solicitud, created_at, suggested,
                     sentiment_enum, urgency_enum, tags_join(tags_arg))
    IN [status |-> 200, raised |-> "none", persisted |-> TRUE, task |-> task,
        body |-> AnalyzeOut(task.suggested_response, sentiment_enum, urgency_enum,
                            str_split(task.tags, COMMA))]

\* GET /tasks
get_tasks ==
    [i \in DOMAIN tasks |->
        [id |-> tasks[i].id, solicitud |-> tasks[i].solicitud,
         created_at |-> tasks[i].created_at,
         suggested_response |-> tasks[i].suggested_response,
         sentiment |-> tasks[i].sentiment, urgency |-> tasks[i].urgency,
         tags |-> str_split(tasks[i].tags, COMMA)]]

(***************************************************************************)
(* Inputs: request bodies and LLM replies.                                 *)
(***************************************************************************)
\* POST /analyze bodies: solicitud missing, empty, or some text
AnalyzeBodies ==
    {[has_solicitud |-> FALSE, solicitud |-> ""],
     [has_solicitud |-> TRUE, solicitud |-> ""],
     [has_solicitud |-> TRUE, solicitud |-> "s"]}

TagStrings == {<<>>, <<"a">>, <<"a", ",", "b">>}

TagLists == UNION {[1..n -> TagStrings] : n \in 0..MaxTags}

SentimentReplies ==
    {JAbsent, JNull, JString("positive"), JString("negative"),
     JString("neutral"), JString("angry")}
UrgencyReplies ==
    {JAbsent, JNumber, JString("low"), JString("medium"),
     JString("high"), JString("urgent")}
SuggestedReplies == {JAbsent, JNull, JArray, JString("ok")}
TagsReplies ==
    {TagsAbsent, TagsNull, TagsString(<<"a", "b">>),
     [t |-> "array", items |-> <<StrItem(<<"a">>), NumItem>>]}
    \cup {TagsList(l) : l \in TagLists}

\* what the LLM may return to analyze: text that is not JSON, JSON that is not
\* an object, and objects: every pair of sentiment and urgency values with the
\* other two fields well formed; every tags value, and every suggested_response
\* value, with one of sentiment and urgency outside its enumeration
AnalyzeReplies ==
    {NotJSON}
    \cup {JSONValue(t) : t \in {"array", "string", "number", "null"}}
    \cup {JSONObject(se, ur, JString("ok"), TagsList(<< <<"a">> >>)) :
            se \in SentimentReplies, ur \in UrgencyReplies}
    \cup {JSONObject(eu[1], eu[2], JString("ok"), tg) :
            eu \in {<<JString("angry"), JString("high")>>,
                    <<JString("positive"), JString("urgent")>>},
            tg \in TagsReplies}
    \cup {JSONObject(eu[1], eu[2], su, TagsList(<< <<"a">> >>)) :
            eu \in {<<JString("angry"), JString("high")>>,
                    <<JString("positive"), JString("urgent")>>},
            su \in SuggestedReplies}

UserMessages == {"q1", "q2"}
Answers == {"r1", "r2"}

\* models.ChatRequest.messages of n turns, alternating roles, all distinct
History(n) ==
    [i \in 1..n |-> [role |-> IF i % 2 = 1 THEN "user" ELSE "assistant",
                     content |-> ToString(i)]]

(***************************************************************************)
(* HTTP requests and responses as recorded in the state.                   *)
(***************************************************************************)
NoRequest ==
    [endpoint |-> "none", has_solicitud |-> FALSE, solicitud |-> "",
     id |-> 0, messages |-> <<>>, user_message |-> ""]
AnalyzeRequest(body) ==
    [endpoint |-> "POST /analyze", has_solicitud |-> body.has_solicitud,
     solicitud |-> body.solicitud, id |-> 0, messages |-> <<>>,
     user_message |-> ""]
ChatRequest(id, messages, user_message) ==
    [endpoint |-> "POST /incidencias/{id}/chat", has_solicitud |-> FALSE,
     solicitud |-> "", id |-> id, messages |-> messages,
     user_message |-> user_message]

Response(status, body, answer) == [status |-> status, body |-> body, answer |-> answer]
NoResponse == Response(0, NoBody, "")

\* the reply slot before any reply, and after a call that raised
NoReply == [kind |-> "none", text |-> NotJSON, answer |-> ""]
TextReply(text) == [kind |-> "text", text |-> text, answer |-> ""]
AnswerReply(answer) == [kind |-> "answer", text |-> NotJSON, answer |-> answer]

\* a body model whose solicitud is optional
AnalyzeInOptional(body) == TRUE

\* pydantic validation of AnalyzeIn at the boundary: solicitud is a required str
AnalyzeIn(body) == body.has_solicitud

\* the two messages analyze sends to the LLM
analyze_messages(solicitud) ==
    <<[role |-> "system", content |-> "system_prompt_content"],
      [role |-> "user", content |-> solicitud]>>

\* datetime.utcnow(): every read is later than the one before (a commit, or a
\* call to the LLM, lies between two reads); only the order is observable
utcnow == now + 1

(***************************************************************************)
(* POST /analyze                                                           *)
(***************************************************************************)
\* the body fails validation: the handler does not run
analyze_rejected(body) ==
    /\ Len(tasks) < MaxTasks
    /\ ~AnalyzeIn(body)
    /\ request' = AnalyzeRequest(body)
    /\ llm_called' = FALSE
    /\ response' = Response(422, NoBody, "")
    /\ UNCHANGED <<tasks, chat_messages, now, calls, llm_request, llm_reply,
                   completed>>

\* the call to the LLM raises (transport, authentication): nothing catches it
analyze_llm_error(body) ==
    /\ Len(tasks) < MaxTasks
    /\ AnalyzeIn(body)
    /\ request' = AnalyzeRequest(body)
    /\ llm_request' = analyze_messages(body.solicitud)
    /\ llm_called' = TRUE
    /\ llm_reply' = NoReply
    /\ response' = Response(500, NoBody, "")
    /\ UNCHANGED <<tasks, chat_messages, now, calls, completed>>

\* the LLM replies with text, after some time
analyze(body, text) ==
    /\ Len(tasks) < MaxTasks
    /\ AnalyzeIn(body)
    /\ LET r == analyze_body(body.solicitud, text, Len(tasks) + 1, utcnow) IN
        /\ request' = AnalyzeRequest(body)
        /\ llm_request' = analyze_messages(body.solicitud)
        /\ llm_called' = TRUE
        /\ llm_reply' = TextReply(text)
        /\ tasks' = IF r.persisted THEN Append(tasks, r.task) ELSE tasks
        /\ now' = IF r.persisted THEN utcnow ELSE now
        /\ response' = Response(r.status, r.body, "")
    /\ UNCHANGED <<chat_messages, calls, completed>>

(***************************************************************************)
(* Chat: POST and GET /incidencias/{id}/chat                               *)
(***************************************************************************)
\* a chat call waiting for the LLM: the incident and the user's message
Calling(id, user_message) == [id |-> id, user_message |-> user_message]

\* app/db.py ChatMessage row as stored
ChatMessage(id, incidencia_id, role, content, timestamp) ==
    [id |-> id, incidencia_id |-> incidencia_id, role |-> role,
     content |-> content, timestamp |-> timestamp]

\* a lookup that forgets the filter: the first row, whatever the id
query_task_unfiltered(id) == IF Len(tasks) > 0 THEN {1} ELSE {}

\* db.query(Task).filter(Task.id == id).first(): the matching rows
query_task(id) == {i \in DOMAIN tasks : tasks[i].id = id}

\* the system prompt built from the incident
system_prompt(task) ==
    [solicitud |-> task.solicitud, suggested_response |-> task.suggested_response,
     sentiment |-> task.sentiment, urgency |-> task.urgency, tags |-> task.tags]

HISTORY_LIMIT == 5

\* a truncation that keeps the first turns instead of the last: messages[:5]
truncate_history_first(messages) ==
    IF Len(messages) > HISTORY_LIMIT THEN SubSeq(messages, 1, HISTORY_LIMIT)
    ELSE messages

\* chat.messages[-5:] if len(chat.messages) > 5 else chat.messages
truncate_history(messages) ==
    IF Len(messages) > HISTORY_LIMIT
    THEN SubSeq(messages, Len(messages) - HISTORY_LIMIT + 1, Len(messages))
    ELSE messages

\* the message sequence sent to the LLM
chat_messages_for(task, messages, user_message) ==
    <<[role |-> "system", content |-> system_prompt(task)]>>
    \o [i \in DOMAIN truncate_history(messages) |->
            [role |-> truncate_history(messages)[i].role,
             content |-> truncate_history(messages)[i].content]]
    \o <<[role |-> "user", content |-> user_message]>>

\* db.add(row); db.commit() on chat_messages
insert_chat(table, incidencia_id, role, content, timestamp) ==
    Append(table, ChatMessage(Len(table) + 1, incidencia_id, role, content, timestamp))

\* the sequence s without its k-th element
Remove(s, k) == [i \in 1..(Len(s) - 1) |-> IF i < k THEN s[i] ELSE s[i + 1]]

\* no incident has this id: 404 before anything else happens
chat_incidencia_not_found(id, messages, user_message) ==
    /\ Len(calls) < NumWorkers
    /\ query_task(id) = {}
    /\ request' = ChatRequest(id, messages, user_message)
    /\ llm_called' = FALSE
    /\ response' = Response(404, NoBody, "")
    /\ UNCHANGED <<tasks, chat_messages, now, calls, llm_request, llm_reply,
                   completed>>

\* a call that sends the messages to the LLM without committing the user's
\* message first
chat_incidencia_call_uncommitted(id, messages, user_message) ==
    /\ Len(calls) < NumWorkers
    /\ query_task(id) # {}
    /\ Len(chat_messages) + Len(calls) + 2 <= MaxMsgs
    /\ LET task == tasks[CHOOSE i \in query_task(id) : TRUE] IN
        /\ request' = ChatRequest(id, messages, user_message)
        /\ llm_request' = chat_messages_for(task, messages, user_message)
        /\ llm_called' = TRUE
        /\ calls' = Append(calls, Calling(id, user_message))
    /\ UNCHANGED <<tasks, chat_messages, now, response, llm_reply, completed>>

\* main.py 124-165: a free worker looks the incident up, builds the messages,
\* commits the user's message and sends the messages to the LLM
chat_incidencia_call(id, messages, user_message) ==
    /\ Len(calls) < NumWorkers
    /\ query_task(id) # {}
    /\ Len(chat_messages) + Len(calls) + 2 <= MaxMsgs
    /\ LET task == tasks[CHOOSE i \in query_task(id) : TRUE] IN
        /\ request' = ChatRequest(id, messages, user_message)
        /\ chat_messages' = insert_chat(chat_messages, id, "user", user_message, utcnow)
        /\ now' = utcnow
        /\ llm_request' = chat_messages_for(task, messages, user_message)
        /\ llm_called' = TRUE
        /\ calls' = Append(calls, Calling(id, user_message))
    /\ UNCHANGED <<tasks, response, llm_reply, completed>>

\* main.py 166-177: the LLM answered the k-th waiting call; commit the
\* assistant's message, respond
chat_incidencia_reply(k, answer) ==
    /\ k \in DOMAIN calls
    /\ llm_reply' = AnswerReply(answer)
    /\ chat_messages' = insert_chat(chat_messages, calls[k].id, "assistant", answer, utcnow)
    /\ now' = utcnow
    /\ response' = Response(200, NoBody, answer)
    /\ completed' = Append(completed, [id |-> calls[k].id,
                                       user_message |-> calls[k].user_message,
                                       ok |-> TRUE, answer |-> answer])
    /\ calls' = Remove(calls, k)
    /\ UNCHANGED <<tasks, request, llm_request, llm_called>>

\* the k-th waiting call to the LLM raised: the handler is left with a 500,
\* the user's message stays committed
chat_incidencia_llm_error(k) ==
    /\ k \in DOMAIN calls
    /\ llm_reply' = NoReply
    /\ response' = Response(500, NoBody, "")
    /\ completed' = Append(completed, [id |-> calls[k].id,
                                       user_message |-> calls[k].user_message,
                                       ok |-> FALSE, answer |-> ""])
    /\ calls' = Remove(calls, k)
    /\ UNCHANGED <<tasks, chat_messages, now, request, llm_request, llm_called>>

\* a listing that forgets the filter on incidencia_id
chat_rows_unfiltered(id) == {chat_messages[i] : i \in DOMAIN chat_messages}

\* rows of the incident
chat_rows(id) == {chat_messages[i] : i \in {j \in DOMAIN chat_messages :
                                              chat_messages[j].incidencia_id = id}}

RECURSIVE order_by_timestamp(_)
\* ORDER BY timestamp: every order of the rows that is ascending by timestamp
\* (rows with equal timestamps come in an order the store chooses)
order_by_timestamp(rows) ==
    IF rows = {} THEN {<<>>}
    ELSE UNION {{<<m>> \o rest : rest \in order_by_timestamp(rows \ {m})} :
                  m \in {x \in rows : \A y \in rows : x.timestamp <= y.timestamp}}

\* msg.timestamp.isoformat()
isoformat(timestamp) == ToString(timestamp)

\* GET /incidencias/{id}/chat: the lists it may return
get_chat_incidencia(id) ==
    {[i \in DOMAIN rows |-> [role |-> rows[i].role, content |-> rows[i].content,
                             timestamp |-> isoformat(rows[i].timestamp)]] :
        rows \in order_by_timestamp(chat_rows(id))}

(***************************************************************************)
(* Specifications.                                                         *)
(***************************************************************************)
\* the store as create_all leaves it, no request served yet
Init ==
    /\ tasks = <<>>
    /\ chat_messages = <<>>
    /\ now = 0
    /\ calls = <<>>
    /\ request = NoRequest
    /\ response = NoResponse
    /\ llm_request = <<>>
    /\ llm_reply = NoReply
    /\ llm_called = FALSE
    /\ completed = <<>>

\* requests to /analyze
Next ==
    \/ \E body \in AnalyzeBodies : analyze_rejected(body)
    \/ \E body \in AnalyzeBodies : analyze_llm_error(body)
    \/ \E body \in AnalyzeBodies, text \in AnalyzeReplies : analyze(body, text)

Spec == Init /\ [][Next]_vars

\* a store holding n incidents, as n calls of analyze leave it
SeedReply ==
    JSONObject(JString("negative"), JString("high"), JString("ok"),
               TagsList(<< <<"a">>, <<"b">> >>))
SeedStore(n) == [i \in 1..n |-> analyze_body("s", SeedReply, i, i).task]

InitChat ==
    /\ \E n \in 0..NumSeedTasks : tasks = SeedStore(n) /\ now = n
    /\ chat_messages = <<>>
    /\ calls = <<>>
    /\ request = NoRequest
    /\ response = NoResponse
    /\ llm_request = <<>>
    /\ llm_reply = NoReply
    /\ llm_called = FALSE
    /\ completed = <<>>

ChatIds == 1..(NumSeedTasks + 1)

\* the history sent with an unknown id (the handler reads none of it) and,
\* beside the empty one, with overlapping calls: the longest
LongHistory == History(MaxHistory)

\* chat requests served by up to NumWorkers workers, their LLM calls
\* overlapping
NextChat ==
    \/ \E id \in ChatIds, um \in UserMessages :
         chat_incidencia_not_found(id, LongHistory, um)
    \/ \E id \in ChatIds, h \in {History(0), LongHistory}, um \in UserMessages :
         chat_incidencia_call(id, h, um)
    \/ \E k \in 1..NumWorkers, answer \in Answers :
         chat_incidencia_reply(k, answer)
    \/ \E k \in 1..NumWorkers : chat_incidencia_llm_error(k)

SpecChat == InitChat /\ [][NextChat]_vars

\* chat requests served one after the other: a request arrives when no call
\* is waiting
NextChatSeq ==
    \/ \E id \in ChatIds, um \in UserMessages :
         calls = <<>> /\ chat_incidencia_not_found(id, LongHistory, um)
    \/ \E id \in ChatIds, n \in 0..MaxHistory, um \in UserMessages :
         calls = <<>> /\ chat_incidencia_call(id, History(n), um)
    \/ \E answer \in Answers : chat_incidencia_reply(1, answer)
    \/ chat_incidencia_llm_error(1)

SpecChatSeq == InitChat /\ [][NextChatSeq]_vars

(***************************************************************************)
(* Properties of POST /analyze and GET /tasks, under Spec.                 *)
(***************************************************************************)
\* the last step served a validated /analyze request to which the LLM replied
AnalyzedReply ==
    /\ request.endpoint = "POST /analyze"
    /\ request.has_solicitud
    /\ llm_reply.kind = "text"

ReplyObject == llm_reply.text.valid /\ llm_reply.text.t = "object"

\* the Python list of strings a tags value of the reply denotes
TagsOf(x) == [i \in DOMAIN x.items |-> x.items[i].s]

StringList(x) == x.t = "array" /\ \A i \in DOMAIN x.items : x.items[i].t = "string"

CommaFree(x) ==
    \A i \in DOMAIN x.items : \A j \in DOMAIN x.items[i].s : x.items[i].s[j] # COMMA

\* C1: every response /analyze returns with an analysis carries a sentiment
\* in {positive, negative, neutral} and an urgency in {low, medium, high},
\* whatever the LLM replied, and so does every row of tasks in every
\* reachable state.
C1_EnumsClosed ==
    /\ \A i \in DOMAIN tasks :
         /\ tasks[i].sentiment \in {"positive", "negative", "neutral"}
         /\ tasks[i].urgency \in {"low", "medium", "high"}
    /\ (request.endpoint = "POST /analyze" /\ response.status = 200) =>
         /\ response.body.sentiment \in {"positive", "negative", "neutral"}
         /\ response.body.urgency \in {"low", "medium", "high"}

\* a row was stored from a reply whose sentiment is null and whose urgency is
\* a string outside the enumeration
C1_Witness ==
    /\ AnalyzedReply /\ ReplyObject
    /\ llm_reply.text.obj.sentiment = JNull
    /\ llm_reply.text.obj.urgency = JString("urgent")
    /\ response.status = 200
    /\ Len(tasks) >= 1

ExpectedFallback(suggested) ==
    [status |-> 200,
     body |-> [suggested_response |-> JString(suggested), sentiment |-> "neutral",
               urgency |-> "low", tags |-> << <<"error_parsing">> >>],
     answer |-> ""]

\* C2 as stated: when the LLM's text is not valid JSON, /analyze answers 200
\* with exactly {suggested_response: "Error processing model response.",
\* sentiment: neutral, urgency: low, tags: ["error_parsing"]}.
C2_Original ==
    (AnalyzedReply /\ ~llm_reply.text.valid) =>
        response = ExpectedFallback("Error processing model response.")

\* C2 amended: when the LLM's text is not valid JSON, /analyze answers 200
\* with exactly {suggested_response: "Error al procesar la respuesta del
\* modelo.", sentiment: neutral, urgency: low, tags: ["error_parsing"]}.
C2_Fallback ==
    (AnalyzedReply /\ ~llm_reply.text.valid) =>
        response = ExpectedFallback("Error al procesar la respuesta del modelo.")

\* the LLM's text was not valid JSON and the request was answered
C2_Witness == AnalyzedReply /\ ~llm_reply.text.valid /\ response.status = 200

\* C3: whatever text the LLM returns, /analyze completes successfully with a
\* well-formed response: no malformed field of the reply fails the request.
C3_NeverFails ==
    AnalyzedReply =>
        /\ response.status = 200
        /\ response.body.sentiment \in {"positive", "negative", "neutral"}
        /\ response.body.urgency \in {"low", "medium", "high"}
        /\ response.body.suggested_response.t = "string"

\* C4: when the reply is an object whose sentiment (resp. urgency) is a
\* string outside the enumeration and whose other fields are valid, that
\* field alone is stored and returned as neutral (resp. low) and the other
\* fields are stored and returned unchanged.
C4_OthersPreserved ==
    LET o == llm_reply.text.obj
        row == tasks[Len(tasks)]
        listed == get_tasks[Len(tasks)]
        sentiment_ok == in_values(o.sentiment, Sentiment)
        urgency_ok == in_values(o.urgency, Urgency)
    IN
    (/\ AnalyzedReply /\ ReplyObject
     /\ o.sentiment.t = "string" /\ o.urgency.t = "string"
     /\ sentiment_ok # urgency_ok
     /\ o.suggested_response.t = "string"
     /\ StringList(o.tags)) =>
        /\ response.status = 200
        /\ Len(tasks) >= 1
        /\ response.body.sentiment = IF sentiment_ok THEN o.sentiment.s ELSE "neutral"
        /\ response.body.urgency = IF urgency_ok THEN o.urgency.s ELSE "low"
        /\ row.sentiment = response.body.sentiment
        /\ row.urgency = response.body.urgency
        /\ response.body.suggested_response = o.suggested_response
        /\ row.suggested_response = o.suggested_response
        /\ response.body.tags = TagsOf(o.tags)
        /\ listed.tags = TagsOf(o.tags)

\* C5: every list of comma-free tags, of any length, that /analyze persists
\* for an incident is the list GET /tasks reports for that incident.
C5_TagsRoundTrip ==
    (/\ AnalyzedReply /\ ReplyObject
     /\ response.status = 200
     /\ StringList(llm_reply.text.obj.tags)
     /\ CommaFree(llm_reply.text.obj.tags)) =>
        /\ Len(tasks) >= 1
        /\ get_tasks[Len(tasks)].tags = TagsOf(llm_reply.text.obj.tags)

\* C9 as stated: a request whose text is empty or missing is rejected with a
\* validation error.
C9_Original ==
    (/\ request.endpoint = "POST /analyze"
     /\ (~request.has_solicitud \/ request.solicitud = "")) =>
        response.status = 422

\* C9 amended: a request whose text is missing is rejected with a validation
\* error before the handler runs: the LLM is not invoked and no row is
\* stored; a request whose text is present, empty included, is not rejected.
C9_MissingRejected ==
    [][request'.endpoint = "POST /analyze" =>
         IF request'.has_solicitud
         THEN response'.status # 422
         ELSE /\ response'.status = 422
              /\ ~llm_called'
              /\ llm_request' = llm_request
              /\ llm_reply' = llm_reply
              /\ tasks' = tasks]_vars

\* a request without text was rejected
C9_Witness ==
    /\ request.endpoint = "POST /analyze" /\ ~request.has_solicitud
    /\ response.status = 422

(***************************************************************************)
(* Properties of the chat endpoints, under SpecChatSeq and SpecChat.       *)
(***************************************************************************)
Exists(id) == \E i \in DOMAIN tasks : tasks[i].id = id

IsChat(r) == r.endpoint = "POST /incidencias/{id}/chat"

\* C6: a chat request whose id matches no incident is answered 404, makes no
\* call to the LLM and leaves chat_messages as it was.
C6_NotFound ==
    [][(IsChat(request') /\ ~Exists(request'.id)) =>
          /\ response'.status = 404
          /\ ~llm_called'
          /\ llm_request' = llm_request
          /\ calls' = calls
          /\ chat_messages' = chat_messages]_vars

\* a 404 was answered while incidents and chat messages are stored
C6_Witness ==
    /\ IsChat(request) /\ ~Exists(request.id)
    /\ response.status = 404
    /\ tasks # <<>>
    /\ chat_messages # <<>>

\* the messages the LLM is to receive for a chat request on incident `task`:
\* the system prompt, the last min(n, 5) of the n history turns in their
\* order, the new user message
ExpectedMessages(task, r) ==
    LET n == Len(r.messages)
        k == IF n < 5 THEN n ELSE 5
    IN [i \in 1..(k + 2) |->
          IF i = 1 THEN [role |-> "system",
                         content |-> [solicitud |-> task.solicitud,
                                      suggested_response |-> task.suggested_response,
                                      sentiment |-> task.sentiment,
                                      urgency |-> task.urgency,
                                      tags |-> task.tags]]
          ELSE IF i = k + 2 THEN [role |-> "user", content |-> r.user_message]
          ELSE r.messages[n - k + i - 1]]

\* the rows of incident id, each as GET /incidencias/{id}/chat renders it
Rendered(id) ==
    {[role |-> m.role, content |-> m.content, timestamp |-> ToString(m.timestamp)] :
        m \in chat_rows(id)}

\* C7: a chat call on an existing incident sends the LLM the system prompt,
\* then the last min(n, 5) of the n supplied history turns in order, then
\* the new user message; and no step removes or alters a persisted chat
\* message: every message persisted before stays in every list GET
\* /incidencias/{id}/chat returns.
C7_LastFiveAndStorageKept ==
    [][/\ (IsChat(request') /\ Exists(request'.id) /\ Len(calls') > Len(calls)) =>
            \E i \in DOMAIN tasks :
                /\ tasks[i].id = request'.id
                /\ llm_request' = ExpectedMessages(tasks[i], request')
       /\ \A i \in DOMAIN chat_messages :
            /\ i \in DOMAIN chat_messages'
            /\ chat_messages'[i] = chat_messages[i]
       /\ \A id \in 1..(NumSeedTasks + 1) :
            \A l \in get_chat_incidencia(id)' :
                Rendered(id) \subseteq {l[j] : j \in DOMAIN l}]_vars

\* a call with 7 history turns was sent as 7 messages (prompt, 5 turns, the
\* new message) while earlier turns of the incident are stored
C7_Witness ==
    /\ IsChat(request) /\ Exists(request.id)
    /\ Len(request.messages) = 7
    /\ Len(llm_request) = 7
    /\ calls # <<>>
    /\ Cardinality(chat_rows(request.id)) >= 3

\* the calls that ended for incident id, in order
CallsOf(id) == SelectSeq(completed, LAMBDA c : c.id = id)

\* C8: after k chat calls for an incident, made one after the other and all
\* successful, GET /incidencias/{id}/chat returns exactly 2k messages, in
\* ascending timestamp order, which is the order of persistence: user,
\* assistant, user, assistant, ..., each pair the call's message and reply.
C8_Transcript ==
    \A id \in 1..(NumSeedTasks + 1) :
        LET ended == CallsOf(id)
            k == Len(ended)
        IN
        (/\ \A j \in 1..k : ended[j].ok
         /\ \A c \in DOMAIN calls : calls[c].id # id) =>
            /\ \A l \in get_chat_incidencia(id) :
                 /\ Len(l) = 2 * k
                 /\ \A j \in 1..k :
                      /\ l[2 * j - 1].role = "user"
                      /\ l[2 * j - 1].content = ended[j].user_message
                      /\ l[2 * j].role = "assistant"
                      /\ l[2 * j].content = ended[j].answer
            /\ \A rows \in order_by_timestamp(chat_rows(id)) :
                 \A i, j \in DOMAIN rows :
                    i < j => /\ rows[i].timestamp <= rows[j].timestamp
                             /\ rows[i].id < rows[j].id

\* two successful calls for the same incident have ended, none failed
C8_Witness ==
    \E id \in 1..(NumSeedTasks + 1) :
        /\ Len(CallsOf(id)) = 2
        /\ \A j \in 1..2 : CallsOf(id)[j].ok
        /\ CallsOf(id)[1].user_message # CallsOf(id)[2].user_message
        /\ calls = <<>>

Count(id, role) ==
    Cardinality({i \in DOMAIN chat_messages :
                    chat_messages[i].incidencia_id = id /\ chat_messages[i].role = role})

\* C10: the user message of a chat call is committed before its LLM call and
\* the assistant reply only after the LLM returned: in every reachable state,
\* also with calls overlapping or failed, each incident has at least as many
\* user messages as assistant messages plus calls waiting for the LLM, and
\* every chat message carries the id of a stored incident.
C10_UserBeforeAssistant ==
    /\ \A id \in 1..(NumSeedTasks + 1) :
         Count(id, "assistant") + Cardinality({c \in DOMAIN calls : calls[c].id = id})
           <= Count(id, "user")
    /\ \A c \in DOMAIN calls :
         \E i \in DOMAIN chat_messages :
            /\ chat_messages[i].incidencia_id = calls[c].id
            /\ chat_messages[i].role = "user"
            /\ chat_messages[i].content = calls[c].user_message
    /\ \A i \in DOMAIN chat_messages : Exists(chat_messages[i].incidencia_id)

\* two calls for the same incident wait for the LLM at once, both user
\* messages committed and no reply yet
C10_Witness ==
    \E id \in 1..(NumSeedTasks + 1) :
        /\ Cardinality({c \in DOMAIN calls : calls[c].id = id}) >= 2
        /\ Count(id, "user") >= 2
        /\ Count(id, "assistant") = 0

====
